---- MODULE Spec2Model ----
(***************************************************************************)
(* A model of youtil.py (class Youtil): the filename normaliser            *)
(* get_new_filename, the ffmpeg conversion wrappers convert_to_mp3 and     *)
(* batch_convert_to_mp3, and the yt-dlp download wrappers download_video   *)
(* and batch_download_video.                                               *)
(*                                                                         *)
(* A Python str is modelled as a sequence of characters; a character is a  *)
(* one-character string, except the three characters written by name:      *)
(* "TAB" (U+0009), "ENDASH" (U+2013) and "BIGSOLIDUS" (U+29F8).            *)
(***************************************************************************)
EXTENDS Integers, Sequences, FiniteSets, TLC

VARIABLES
    pc,                \* position of the running call
    filename,          \* get_new_filename: argument filename
    fmt,               \* get_new_filename: argument fmt
    replaced,          \* get_new_filename: new_filename after lines 51-52
    hits,              \* the table entries whose old_text line 52 found
    cleaned,           \* get_new_filename: new_filename after line 64
    reassembled,       \* get_new_filename: new_filename after lines 67-71
    new_filename,      \* get_new_filename: the returned string
    current_working_directory,  \* Youtil.current_working_directory
    filename_list,     \* batch_convert_to_mp3: argument
    url_list,          \* batch_download_video: argument
    idx,               \* entries of the list the batch loop has taken
    output,            \* the batch loops' local list `output`
    returned,          \* what the batch call returned (NotReturned before)
    encoder_calls,     \* subprocess.run calls so far
    fetch_calls,       \* yd.extract_info calls so far
    glob_calls,        \* glob.glob calls so far
    raised             \* the exception that left the call, or "none"

vars == <<pc, filename, fmt, replaced, hits, cleaned, reassembled, new_filename,
          current_working_directory, filename_list, url_list, idx, output,
          returned, encoder_calls, fetch_calls, glob_calls, raised>>

-----------------------------------------------------------------------------
(* Bounds of the model.                                                    *)

\* a filename is at most MaxTokens title tokens followed by one suffix
MaxTokens == 2
\* the batch calls get lists of at most MaxBatch entries
MaxBatch == 3

-----------------------------------------------------------------------------
(* Python str operations, as the interpreter computes them.                *)

\* the characters str.strip() removes, among the characters of the model
Whitespace == {" ", "TAB"}

UpperCase == <<"A", "B", "C", "D", "E", "F", "G", "H", "I", "J", "K", "L", "M",
               "N", "O", "P", "Q", "R", "S", "T", "U", "V", "W", "X", "Y", "Z">>
LowerCase == <<"a", "b", "c", "d", "e", "f", "g", "h", "i", "j", "k", "l", "m",
               "n", "o", "p", "q", "r", "s", "t", "u", "v", "w", "x", "y", "z">>

\* old occurs in s at index i
MatchAt(s, old, i) ==
    /\ i + Len(old) - 1 <= Len(s)
    /\ (old = <<>> \/ s[i] = old[1])
    /\ SubSeq(s, i, i + Len(old) - 1) = old

\* `sub in s`
Contains(s, sub) == \E i \in 1..(Len(s) + 1) : MatchAt(s, sub, i)

\* the least member of a non-empty set of indices
Least(S) == CHOOSE i \in S : \A j \in S : i <= j

\* s.replace(old, new) on s[i..]: the leftmost occurrence at or after i is
\* replaced, and the scan goes on behind it
RECURSIVE ReplaceFrom(_, _, _, _)
ReplaceFrom(s, old, new, i) ==
    LET at == {j \in i..Len(s) : MatchAt(s, old, j)}
    IN  IF at = {} THEN SubSeq(s, i, Len(s))
        ELSE SubSeq(s, i, Least(at) - 1) \o new
             \o ReplaceFrom(s, old, new, Least(at) + Len(old))

\* s.replace(old, new), old not empty: the leftmost non-overlapping
\* occurrences, found in one left-to-right scan
Replace(s, old, new) == ReplaceFrom(s, old, new, 1)

\* re.sub(r" +", " ", s) on s[i..]: the leftmost run of two or more U+0020
\* at or after i becomes one U+0020, and the scan goes on behind the run
RECURSIVE CollapseFrom(_, _)
CollapseFrom(s, i) ==
    LET runs == {j \in i..(Len(s) - 1) : s[j] = " " /\ s[j + 1] = " "}
    IN  IF runs = {} THEN SubSeq(s, i, Len(s))
        ELSE LET start == Least(runs)
                 after == {j \in start..Len(s) : s[j] # " "}
                 next  == IF after = {} THEN Len(s) + 1 ELSE Least(after)
             IN  SubSeq(s, i, start) \o CollapseFrom(s, next)

\* re.sub(r" +", " ", s): every run of U+0020 becomes one U+0020
CollapseSpaces(s) == CollapseFrom(s, 1)

RECURSIVE FirstSolid(_, _)
FirstSolid(s, i) ==
    IF i > Len(s) \/ s[i] \notin Whitespace THEN i ELSE FirstSolid(s, i + 1)

RECURSIVE LastSolid(_, _)
LastSolid(s, i) ==
    IF i < 1 \/ s[i] \notin Whitespace THEN i ELSE LastSolid(s, i - 1)

\* s.strip(): leading and trailing whitespace removed
Strip(s) == SubSeq(s, FirstSolid(s, 1), LastSolid(s, Len(s)))

UpperIndex ==
    [c \in {UpperCase[k] : k \in 1..Len(UpperCase)} |->
        CHOOSE k \in 1..Len(UpperCase) : UpperCase[k] = c]

LowerChar(c) == IF c \in DOMAIN UpperIndex THEN LowerCase[UpperIndex[c]] ELSE c

\* s.lower()
Lower(s) == [i \in 1..Len(s) |-> LowerChar(s[i])]

\* the length of the "Youtube video code" block the slices [:-16], [-16:] cut
VideoCodeLen == 16

\* s[:-16]
SliceHead(s) ==
    IF Len(s) > VideoCodeLen THEN SubSeq(s, 1, Len(s) - VideoCodeLen) ELSE <<>>

\* s[-16:]
SliceTail(s) ==
    IF Len(s) > VideoCodeLen THEN SubSeq(s, Len(s) - VideoCodeLen + 1, Len(s)) ELSE s

RECURSIVE RFindFrom(_, _, _)
RFindFrom(s, c, i) ==
    IF i < 1 \/ s[i] = c THEN i ELSE RFindFrom(s, c, i - 1)

\* the largest index of character c in s, 0 when there is none (str.rfind + 1)
RFind(s, c) == IF Len(s) = 0 THEN 0 ELSE RFindFrom(s, c, Len(s))

\* SplitextRoot, had the code cut at the last period wherever it stands
SplitextRoot_last_period(p) ==
    IF RFind(p, ".") > 0 THEN SubSeq(p, 1, RFind(p, ".") - 1) ELSE p

\* os.path.splitext(p)[0] (posixpath, genericpath._splitext with sep "/"):
\* the extension starts at the last period of the last path component,
\* unless only periods stand before it in that component
SplitextRoot(p) ==
    LET sepIndex == RFind(p, "/")
        dotIndex == RFind(p, ".")
    IN  IF dotIndex > sepIndex
           /\ \E i \in (sepIndex + 1)..(dotIndex - 1) : p[i] # "."
        THEN SubSeq(p, 1, dotIndex - 1)
        ELSE p

-----------------------------------------------------------------------------
(* Youtil.get_new_filename                                                 *)

\* the dict `replacements`, in insertion order (the order .items() yields)
replacements == <<
    <<  <<"(", "O", "f", "f", "i", "c", "i", "a", "l", " ", "V", "i", "d", "e", "o", ")">>,
        <<>>  >>,
    <<  <<"[", "O", "f", "f", "i", "c", "i", "a", "l", " ", "M", "u", "s", "i", "c", " ",
          "V", "i", "d", "e", "o", "]">>,
        <<>>  >>,
    <<  <<"(", "O", "f", "f", "i", "c", "i", "a", "l", " ", "M", "u", "s", "i", "c", " ",
          "V", "i", "d", "e", "o", ")">>,
        <<>>  >>,
    <<  <<"(", "O", "f", "f", "i", "c", "i", "a", "l", " ", "L", "i", "v", "e", " ",
          "V", "i", "d", "e", "o", ")">>,
        <<>>  >>,
    <<  <<" ", "P", "a", "r", "t", " ">>,
        <<"-">>  >>,
    <<  <<" ", "(", "I", "n", "t", "e", "r", "l", "u", "d", "e", ")", " ">>,
        <<"-", "i", "n", "t", "e", "r", "l", "u", "d", "e", "-">>  >>,
    <<  <<" ", "(", "F", "e", "a", "t", ".", " ">>,
        <<"-", "f", "e", "a", "t", "-">>  >>,
    <<  <<" ", "(", "f", "e", "a", "t", ".", " ">>,
        <<"-", "f", "e", "a", "t", "-">>  >>,
    <<  <<" ", "f", "e", "a", "t", ".", " ">>,
        <<"-", "f", "e", "a", "t", "-">>  >>,
    <<  <<" ", "f", "t", ".", " ">>,
        <<"-", "f", "e", "a", "t", "-">>  >>,
    <<  <<" ", "w", "BIGSOLIDUS", " ">>,
        <<"-", "w", "i", "t", "h", "-">>  >>,
    <<  <<" ", "&", " ">>,
        <<"-", "a", "n", "d", "-">>  >>,
    <<  <<" ", "+", " ">>,
        <<"-", "a", "n", "d", "-">>  >>
    >>

\* new_text, had the " ft. " entry been written to normalise to " feat. "
new_text_ft_to_feat(k) ==
    IF k = 10 THEN <<" ", "f", "e", "a", "t", ".", " ">> ELSE replacements[k][2]

old_text(k) == replacements[k][1]
new_text(k) == replacements[k][2]

\* ReplacementLoop, had the loop left out the last entry of the table
RECURSIVE ReplacementLoop_skips_last(_, _, _)
ReplacementLoop_skips_last(s, found, k) ==
    IF k >= Len(replacements) THEN [text |-> s, found |-> found]
    ELSE ReplacementLoop_skips_last(
             Replace(s, old_text(k), new_text(k)),
             IF Contains(s, old_text(k)) THEN found \cup {k} ELSE found,
             k + 1)

\* the loop of lines 51-52 from its k-th iteration on, s being the string
\* so far: the final string, and the entries whose old_text occurred in the
\* string when their turn came (found: those among the entries before k)
RECURSIVE ReplacementLoop(_, _, _)
ReplacementLoop(s, found, k) ==
    IF k > Len(replacements) THEN [text |-> s, found |-> found]
    ELSE ReplacementLoop(Replace(s, old_text(k), new_text(k)),
                         IF Contains(s, old_text(k)) THEN found \cup {k} ELSE found,
                         k + 1)

\* lines 51-52: every entry of the table, in order, each on the result of
\* the ones before it
ApplyReplacements(s) == ReplacementLoop(s, {}, 1).text

\* RemoveSpacesAndPunctuation without line 64
RemoveSpacesAndPunctuation_keeps_spaces(s) ==
    LET s55 == CollapseSpaces(s)
        s56 == Strip(s55)
        s57 == Replace(s56, <<",">>, <<"-">>)
        s58 == Replace(s57, <<"(">>, <<>>)
        s59 == Replace(s58, <<")">>, <<>>)
        s60 == Replace(s59, <<"[">>, <<>>)
        s61 == Replace(s60, <<"]">>, <<>>)
        s62 == Replace(s61, <<" ", "-", " ">>, <<"-">>)
    IN  Replace(s62, <<" ", "ENDASH", " ">>, <<"-">>)

\* lines 55-64: "Remove extra spaces and punctuation"
RemoveSpacesAndPunctuation(s) ==
    LET s55 == CollapseSpaces(s)
        s56 == Strip(s55)
        s57 == Replace(s56, <<",">>, <<"-">>)
        s58 == Replace(s57, <<"(">>, <<>>)
        s59 == Replace(s58, <<")">>, <<>>)
        s60 == Replace(s59, <<"[">>, <<>>)
        s61 == Replace(s60, <<"]">>, <<>>)
        s62 == Replace(s61, <<" ", "-", " ">>, <<"-">>)
        s63 == Replace(s62, <<" ", "ENDASH", " ">>, <<"-">>)
    IN  Replace(s63, <<" ">>, <<>>)

\* the string of steps 1-3 (lines 35-64)
Cleaned(s) == RemoveSpacesAndPunctuation(ApplyReplacements(s))

\* line 68: new_filename[:-16].strip().lower()
HeadOf(s) == Lower(Strip(SliceHead(s)))

\* line 68, the trailing .replace(" ", "-")
Hyphenate(head) == Replace(head, <<" ">>, <<"-">>)

\* FixVideoCode, had .lower() been applied to the reassembled string
FixVideoCode_lowers_all(s) ==
    Lower(Hyphenate(Strip(SliceHead(s))) \o <<"_", "_">> \o SliceTail(s))

\* lines 67-71: "Fixing Youtube video code"
FixVideoCode(s) == Hyphenate(HeadOf(s)) \o <<"_", "_">> \o SliceTail(s)

\* lines 75-76: os.path.splitext(...)[0], then ".".join([base_filename, fmt])
ReplaceExtension(s, f) == SplitextRoot(s) \o <<".">> \o f

get_new_filename(name, f) == ReplaceExtension(FixVideoCode(Cleaned(name)), f)

-----------------------------------------------------------------------------
(* The inputs get_new_filename is applied to.                              *)

\* the phrases of the replacement table
Phrases == {old_text(k) : k \in 1..Len(replacements)}

\* pieces of a video title: a piece that shares its space with a table
\* phrase before it, and single characters
Tokens == { <<"&", " ">>, <<"A">>, <<".">>, <<"/">>, <<" ">>, <<"TAB">> }

\* what follows the title: nothing; yt-dlp's " [<id>].<ext>" with a
\* four-letter extension; the same after ", (Live)" with a three-letter
\* extension; a 16-character block without extension
Suffixes ==
    { <<>>,
      <<" ", "[", "U", "Y", "I", "A", "f", "i", "V", "G", "l", "u", "k", "]",
        ".", "w", "e", "b", "m">>,
      <<",", " ", "(", "L", "i", "v", "e", ")", " ",
        "[", "U", "Y", "I", "A", "f", "i", "V", "G", "l", "u", "k", "]",
        ".", "m", "p", "4">>,
      <<"U", "Y", "I", "A", "f", "i", "V", "G", "l", "u", "k", "_", "1", "2", "3", "4">> }

mp3 == <<"m", "p", "3">>

Fmts == { mp3, <<"t", "a", "r", ".", "g", "z">> }

RECURSIVE Flatten(_)
Flatten(ts) == IF ts = <<>> THEN <<>> ELSE Head(ts) \o Flatten(Tail(ts))

Titles == UNION { [1..n -> Tokens] : n \in 0..MaxTokens }

\* a title with at most one table phrase, which stands after the first token
WithPhrase(t, p) == IF t = <<>> THEN p ELSE Head(t) \o p \o Flatten(Tail(t))

Filenames ==
    { WithPhrase(t, p) \o s : t \in Titles, p \in Phrases \cup {<<>>}, s \in Suffixes }

NotReturned == [kind |-> "not returned"]

-----------------------------------------------------------------------------
(* get_new_filename applied to every input of the model.                   *)

\* the variables of the batch calls, idle
BatchIdle ==
    /\ filename_list = <<>>
    /\ url_list = <<>>
    /\ idx = 0
    /\ output = <<>>
    /\ returned = NotReturned
    /\ encoder_calls = <<>>
    /\ fetch_calls = <<>>
    /\ glob_calls = <<>>
    /\ raised = "none"

\* the variables of a get_new_filename call, idle
NormalizerIdle ==
    /\ filename = <<>>
    /\ fmt = <<>>
    /\ replaced = <<>>
    /\ hits = {}
    /\ cleaned = <<>>
    /\ reassembled = <<>>
    /\ new_filename = <<>>

Init ==
    /\ pc = "called"
    /\ filename \in Filenames
    /\ fmt \in Fmts
    /\ replaced = <<>>
    /\ hits = {}
    /\ cleaned = <<>>
    /\ reassembled = <<>>
    /\ new_filename = <<>>
    /\ current_working_directory = "cwd"
    /\ BatchIdle

\* a call of get_new_filename(filename, fmt), lines 26-78
GetNewFilename ==
    /\ pc = "called"
    /\ replaced' = ApplyReplacements(filename)
    /\ hits' = ReplacementLoop(filename, {}, 1).found
    /\ cleaned' = RemoveSpacesAndPunctuation(replaced')
    /\ reassembled' = FixVideoCode(cleaned')
    /\ new_filename' = ReplaceExtension(reassembled', fmt)
    /\ pc' = "returned"
    /\ UNCHANGED <<filename, fmt, current_working_directory, filename_list,
                   url_list, idx, output, returned, encoder_calls, fetch_calls,
                   glob_calls, raised>>

Next == GetNewFilename

Spec == Init /\ [][Next]_vars

-----------------------------------------------------------------------------
(* Youtil.convert_to_mp3 and Youtil.batch_convert_to_mp3                   *)

\* the value None
None == "None"

\* what the ffmpeg process started by subprocess.run can come to
EncoderOutcomes ==
    { "success", "non-zero exit", "target not created",
      "target already present", "source missing" }

\* the error codes the docstring of convert_to_mp3 lists (lines 98-101)
DocumentedErrorCodes ==
    { "CONVERTED_FILE_PATH_ALREADY_EXISTS", "SOURCE_FILE_DOES_NOT_EXIST",
      "FILESYSTEM_ERROR" }

\* the command of lines 108-110: its source and its target
command_string(name) == [source |-> name, target |-> get_new_filename(name, mp3)]

\* convert_to_mp3, had it reported what the docstring promises
convert_to_mp3_reports_outcome(name, outcome) ==
    [ original_filename      |-> name,
      new_filename           |-> get_new_filename(name, mp3),
      successfully_converted |-> outcome = "success",
      error_code             |-> CASE outcome = "success" -> None
                                   [] outcome = "target already present" ->
                                          "CONVERTED_FILE_PATH_ALREADY_EXISTS"
                                   [] outcome = "source missing" ->
                                          "SOURCE_FILE_DOES_NOT_EXIST"
                                   [] OTHER -> "FILESYSTEM_ERROR" ]

\* lines 103-120: the record convert_to_mp3 returns for a file, outcome
\* being what became of the encoder process of line 111
convert_to_mp3(name, outcome) ==
    [ original_filename      |-> name,
      new_filename           |-> get_new_filename(name, mp3),
      successfully_converted |-> TRUE,
      error_code             |-> None ]

\* line 136, had the result been put at the front of the list
batch_convert_collect_in_front(out, result) == <<result>> \o out

\* line 136: output.append(result)
batch_convert_collect(out, result) == Append(out, result)

\* the files handed to the batch conversion
ConvertFilenames ==
    { <<"A", " ", "&", " ", "A", " ", "[", "U", "Y", "I", "A", "f", "i", "V", "G",
        "l", "u", "k", "]", ".", "w", "e", "b", "m">>,
      <<"A", ".", "m", "p", "4">> }

ListsOf(S) == UNION { [1..n -> S] : n \in 0..MaxBatch }

InitConvert ==
    /\ pc = "loop"
    /\ NormalizerIdle
    /\ current_working_directory = "cwd"
    /\ filename_list \in ListsOf(ConvertFilenames)
    /\ url_list = <<>>
    /\ idx = 0
    /\ output = <<>>
    /\ returned = NotReturned
    /\ encoder_calls = <<>>
    /\ fetch_calls = <<>>
    /\ glob_calls = <<>>
    /\ raised = "none"

\* lines 134-136: one iteration of the loop of batch_convert_to_mp3, the
\* call of convert_to_mp3 with its subprocess.run included
ConvertToMp3 ==
    /\ pc = "loop"
    /\ idx < Len(filename_list)
    /\ \E outcome \in EncoderOutcomes :
          LET name == filename_list[idx + 1]
          IN  /\ encoder_calls' = Append(encoder_calls,
                     [command |-> command_string(name), outcome |-> outcome])
              /\ output' = batch_convert_collect(output, convert_to_mp3(name, outcome))
    /\ idx' = idx + 1
    /\ UNCHANGED <<pc, filename, fmt, replaced, hits, cleaned, reassembled,
                   new_filename, current_working_directory, filename_list,
                   url_list, returned, fetch_calls, glob_calls, raised>>

\* line 138: return output
BatchConvertReturn ==
    /\ pc = "loop"
    /\ idx = Len(filename_list)
    /\ returned' = [kind |-> "list", value |-> output]
    /\ pc' = "returned"
    /\ UNCHANGED <<filename, fmt, replaced, hits, cleaned, reassembled,
                   new_filename, current_working_directory, filename_list,
                   url_list, idx, output, encoder_calls, fetch_calls,
                   glob_calls, raised>>

NextConvert == ConvertToMp3 \/ BatchConvertReturn

SpecConvert == InitConvert /\ [][NextConvert]_vars

-----------------------------------------------------------------------------
(* Youtil.download_video and Youtil.batch_download_video                   *)

\* the empty dict {}
EmptyMapping == [k \in {} |-> k]

Urls == {"url1", "url2"}
VideoIds == {"UYIAfiVGluk", "dQw4w9WgXcQ"}
Timestamps == {"now"}

\* the metadata yd.extract_info gives for a video
VideoInfo(id) ==
    [ id |-> id, filesize_approx |-> "filesize", title |-> "title",
      fulltitle |-> "fulltitle", duration |-> "duration" ]

\* what yd.extract_info(url, download=True) can come to: it raises, it
\* returns None, it returns an empty dict, it returns metadata
FetchResults ==
    { [kind |-> "raises"], [kind |-> "None"], [kind |-> "empty"] } \cup
    { [kind |-> "info", info |-> VideoInfo(id)] : id \in VideoIds }

\* `if video_info:` is false
Falsy(fetched) == fetched.kind \in {"None", "empty"}

\* what glob.glob("*<id>*") can return: no file, one, several
GlobResults(id) ==
    { <<>>, << <<id, "webm">> >>, << <<id, "mp4">>, <<id, "webm">> >> }

\* download_video, had an empty glob result been answered with {}
download_video_tolerates_no_match(url, fetched, matches, now) ==
    IF fetched.kind = "raises"
    THEN [kind |-> "raise", error |-> "DownloadError"]
    ELSE IF Falsy(fetched) \/ matches = <<>>
    THEN [kind |-> "return", value |-> EmptyMapping]
    ELSE [kind |-> "return",
          value |-> [ url        |-> url,
                      filename   |-> matches[1],
                      filesize   |-> fetched.info.filesize_approx,
                      title      |-> fetched.info.title,
                      fulltitle  |-> fetched.info.fulltitle,
                      youtube_id |-> fetched.info.id,
                      duration   |-> fetched.info.duration,
                      timestamp  |-> now ]]

\* lines 161-186: how download_video(url) ends, fetched being what
\* yd.extract_info came to, matches what glob.glob returns, now the clock
download_video(url, fetched, matches, now) ==
    IF fetched.kind = "raises"
    THEN [kind |-> "raise", error |-> "DownloadError"]
    ELSE IF Falsy(fetched)
    THEN [kind |-> "return", value |-> EmptyMapping]
    ELSE IF matches = <<>>
    THEN [kind |-> "raise", error |-> "IndexError"]
    ELSE [kind |-> "return",
          value |-> [ url        |-> url,
                      filename   |-> matches[1],
                      filesize   |-> fetched.info.filesize_approx,
                      title      |-> fetched.info.title,
                      fulltitle  |-> fetched.info.fulltitle,
                      youtube_id |-> fetched.info.id,
                      duration   |-> fetched.info.duration,
                      timestamp  |-> now ]]

\* the loop body, had it caught the error and gone on with an empty record
batch_download_step_goes_on(out, result) ==
    IF result.kind = "raise"
    THEN [pc |-> "loop", output |-> Append(out, EmptyMapping), raised |-> "none"]
    ELSE [pc |-> "loop", output |-> Append(out, result.value), raised |-> "none"]

\* lines 200-201: the loop body of batch_download_video after the call of
\* download_video ended in result; nothing catches what it raises
batch_download_step(out, result) ==
    IF result.kind = "raise"
    THEN [pc |-> "raised", output |-> out, raised |-> result.error]
    ELSE [pc |-> "loop", output |-> Append(out, result.value), raised |-> "none"]

InitDownload ==
    /\ pc = "loop"
    /\ NormalizerIdle
    /\ current_working_directory = "cwd"
    /\ filename_list = <<>>
    /\ url_list \in ListsOf(Urls)
    /\ idx = 0
    /\ output = <<>>
    /\ returned = NotReturned
    /\ encoder_calls = <<>>
    /\ fetch_calls = <<>>
    /\ glob_calls = <<>>
    /\ raised = "none"

\* lines 199-201: one iteration of the loop of batch_download_video, the
\* call of download_video with its calls of yt-dlp and glob included
DownloadVideo ==
    /\ pc = "loop"
    /\ idx < Len(url_list)
    /\ \E fetched \in FetchResults, now \in Timestamps :
          LET url == url_list[idx + 1]
              ids == IF fetched.kind = "info" THEN {fetched.info.id} ELSE {"no id"}
          IN  \E id \in ids : \E matches \in GlobResults(id) :
                LET step == batch_download_step(output,
                                download_video(url, fetched, matches, now))
                IN  /\ fetch_calls' = Append(fetch_calls, [url |-> url, result |-> fetched])
                    /\ glob_calls' =
                          IF fetched.kind = "info"
                          THEN Append(glob_calls,
                                      [ call    |-> Len(fetch_calls) + 1,
                                        pattern |-> id,
                                        matches |-> matches ])
                          ELSE glob_calls
                    /\ output' = step.output
                    /\ pc' = step.pc
                    /\ raised' = step.raised
                    /\ idx' = IF step.pc = "loop" THEN idx + 1 ELSE idx
    /\ UNCHANGED <<filename, fmt, replaced, hits, cleaned, reassembled,
                   new_filename, current_working_directory, filename_list,
                   url_list, returned, encoder_calls>>

\* line 203: return output
BatchDownloadReturn ==
    /\ pc = "loop"
    /\ idx = Len(url_list)
    /\ returned' = [kind |-> "list", value |-> output]
    /\ pc' = "returned"
    /\ UNCHANGED <<filename, fmt, replaced, hits, cleaned, reassembled,
                   new_filename, current_working_directory, filename_list,
                   url_list, idx, output, encoder_calls, fetch_calls,
                   glob_calls, raised>>

NextDownload == DownloadVideo \/ BatchDownloadReturn

SpecDownload == InitDownload /\ [][NextDownload]_vars

-----------------------------------------------------------------------------
(* Properties of get_new_filename, under Spec.                             *)

\* the largest index of character c in s, 0 when there is none
LastIndex(s, c) ==
    LET at == {i \in 1..Len(s) : s[i] = c}
    IN  IF at = {} THEN 0 ELSE CHOOSE i \in at : \A j \in at : i >= j

HasChar(s, c) == \E i \in 1..Len(s) : s[i] = c

EndsWith(s, suffix) ==
    /\ Len(suffix) <= Len(s)
    /\ SubSeq(s, Len(s) - Len(suffix) + 1, Len(s)) = suffix

\* s up to but excluding its final period; s itself when it has none
BeforeFinalPeriod(s) ==
    IF HasChar(s, ".") THEN SubSeq(s, 1, LastIndex(s, ".") - 1) ELSE s

\* s ends in .<ext>: a period, then at least one character, none of them
\* a period or a slash
EndsInExtension(s) ==
    /\ LastIndex(s, ".") > LastIndex(s, "/")
    /\ LastIndex(s, ".") < Len(s)

\* the cleaned string without its last 16 characters, and those characters
Front(s) == SubSeq(s, 1, Len(s) - 16)
Last16(s) == SubSeq(s, Len(s) - 15, Len(s))

\* the characters that lines 57-64 remove or replace
Punctuation == {" ", ",", "(", ")", "[", "]"}

\* the four decorations of the table, which it replaces by nothing
Decorations == 1..4

\* C3 as stated: the result is base + "." + fmt, base being the reassembled
\* string up to but excluding its final period; for an input ending in
\* .<ext1> the result ends in .<fmt> and its part before its final period
\* is that base.
C3_AsStated ==
    pc = "returned" =>
        /\ new_filename = BeforeFinalPeriod(reassembled) \o <<".">> \o fmt
        /\ EndsInExtension(filename) =>
              /\ EndsWith(new_filename, <<".">> \o fmt)
              /\ BeforeFinalPeriod(new_filename) = BeforeFinalPeriod(reassembled)

\* C3, amended: the result is base + "." + fmt, where base is the
\* reassembled string up to but excluding its final period when that period
\* stands in the last "/"-separated component behind at least one character
\* of the component that is no period, and the whole reassembled string
\* otherwise; the result ends in "." + fmt, and its part before its final
\* period is base when fmt holds no period.
C3_ExtensionReplaced ==
    pc = "returned" =>
        LET dot  == LastIndex(reassembled, ".")
            sep  == LastIndex(reassembled, "/")
            base == IF dot > sep /\ \E i \in (sep + 1)..(dot - 1) : reassembled[i] # "."
                    THEN SubSeq(reassembled, 1, dot - 1)
                    ELSE reassembled
        IN  /\ new_filename = base \o <<".">> \o fmt
            /\ EndsWith(new_filename, <<".">> \o fmt)
            /\ ~HasChar(fmt, ".") => BeforeFinalPeriod(new_filename) = base

\* a downloaded " [<id>].webm" name was given and came back as "...<id>.mp3"
C3_Witness ==
    /\ pc = "returned"
    /\ fmt = mp3
    /\ EndsWith(filename, <<"k", "]", ".", "w", "e", "b", "m">>)
    /\ EndsWith(new_filename, <<"k", ".", "m", "p", "3">>)

\* C4 as stated: for each phrase of the table and every filename that
\* contains it, the result contains the replacement text and does not
\* contain the phrase.
C4_AsStated ==
    pc = "returned" =>
        \A k \in 1..Len(replacements) :
            Contains(filename, old_text(k)) =>
                /\ Contains(new_filename, new_text(k))
                /\ ~Contains(new_filename, old_text(k))

\* C4, amended: for each phrase of the table and every filename that
\* contains it, the result (fmt holding no space) does not contain the
\* phrase; the string left by the replacement pass contains the replacement
\* text whenever the phrase still occurred when its own entry was applied,
\* which is so at least when the filename contains the phrase of no earlier
\* entry.
C4_PhraseReplaced ==
    pc = "returned" =>
        \A k \in 1..Len(replacements) :
            /\ (Contains(filename, old_text(k)) /\ ~HasChar(fmt, " "))
                  => ~Contains(new_filename, old_text(k))
            /\ k \in hits => Contains(replaced, new_text(k))
            /\ ( /\ Contains(filename, old_text(k))
                 /\ \A j \in 1..(k - 1) : ~Contains(filename, old_text(j)) )
                  => k \in hits /\ Contains(replaced, new_text(k))

\* " feat. & ": two phrases share a space, the earlier entry took it, and
\* the later phrase was not replaced
C4_Witness ==
    /\ pc = "returned"
    /\ Contains(filename, old_text(9))
    /\ Contains(filename, old_text(12))
    /\ hits = {9}
    /\ Contains(replaced, <<"-", "f", "e", "a", "t", "-", "&", " ">>)

\* C5 as stated: when the cleaned string is longer than 16 characters, the
\* result for "mp3" is the lower-cased front, "__", the last 16 characters
\* of the cleaned string, and ".mp3".
C5_AsStated ==
    (pc = "returned" /\ fmt = mp3 /\ Len(cleaned) > 16) =>
        new_filename = Lower(Front(cleaned)) \o <<"_", "_">> \o Last16(cleaned)
                       \o <<".">> \o mp3

\* C5, amended: when the cleaned string is longer than 16 characters, the
\* string before the extension is replaced is head + "__" + tail, head the
\* cleaned string without its last 16 characters, stripped and lower-cased,
\* tail its last 16 characters as they are; the result for "mp3" keeps all
\* 16 of them before ".mp3" when that string holds no period, and when the
\* tail holds a period and no slash the result is head + "__" + the tail
\* up to its last period + ".mp3".
C5_HeadAndTail ==
    (pc = "returned" /\ fmt = mp3 /\ Len(cleaned) > 16) =>
        LET head == Lower(Strip(Front(cleaned)))
            tail == Last16(cleaned)
        IN  /\ reassembled = head \o <<"_", "_">> \o tail
            /\ ~HasChar(reassembled, ".") =>
                  new_filename = head \o <<"_", "_">> \o tail \o <<".">> \o mp3
            /\ (HasChar(tail, ".") /\ ~HasChar(tail, "/")) =>
                  new_filename = head \o <<"_", "_">> \o BeforeFinalPeriod(tail)
                                 \o <<".">> \o mp3

\* a cleaned string longer than 16 characters whose front holds a capital
\* letter and whose tail holds capital letters and the extension
C5_Witness ==
    /\ pc = "returned"
    /\ fmt = mp3
    /\ Len(cleaned) > 16
    /\ Front(cleaned) # Lower(Front(cleaned))
    /\ Last16(cleaned) # Lower(Last16(cleaned))
    /\ HasChar(Last16(cleaned), ".")
    /\ Len(new_filename) < Len(cleaned) + 6

\* C7: on a string that contains none of the decorations, the replacement
\* pass applied twice gives what it gives applied once.
C7_PassIdempotent ==
    (pc = "returned" /\ \A k \in Decorations : ~Contains(filename, old_text(k))) =>
        ApplyReplacements(replaced) = replaced

\* a string without decoration that the first pass changed
C7_Witness ==
    /\ pc = "returned"
    /\ \A k \in Decorations : ~Contains(filename, old_text(k))
    /\ hits # {}
    /\ replaced # filename
    /\ ApplyReplacements(replaced) = replaced

\* C10: when fmt holds no space, comma, parenthesis or square bracket, the
\* result holds none, in the head and in the tail alike, and the
\* replacement of spaces by hyphens in the head changes nothing.
C10_NoSpaceNoPunctuation ==
    (pc = "returned" /\ \A c \in Punctuation : ~HasChar(fmt, c)) =>
        /\ \A c \in Punctuation :
              /\ ~HasChar(new_filename, c)
              /\ ~HasChar(reassembled, c)
              /\ ~HasChar(HeadOf(cleaned), c)
              /\ ~HasChar(SliceTail(cleaned), c)
        /\ Hyphenate(HeadOf(cleaned)) = HeadOf(cleaned)

\* a filename with spaces, a comma, parentheses and square brackets, long
\* enough to have a head
C10_Witness ==
    /\ pc = "returned"
    /\ \A c \in Punctuation : HasChar(filename, c)
    /\ HeadOf(cleaned) # <<>>
    /\ \A c \in Punctuation : ~HasChar(new_filename, c)

-----------------------------------------------------------------------------
(* Properties of the conversion calls, under SpecConvert.                  *)

-----------------------------------------------------------------------------
(* Properties of the download calls, under SpecDownload.                   *)

\* the keys of a full download record
DownloadRecordKeys ==
    { "url", "filename", "filesize", "title", "fulltitle", "youtube_id",
      "duration", "timestamp" }

\* the glob.glob calls made within the i-th call of download_video
GlobCallsOf(i) == {j \in 1..Len(glob_calls) : glob_calls[j].call = i}

\* C8: the URLs are taken one at a time in the order of the list; when
\* every download returns, the list returned has one record per URL in the
\* order of the list, an empty one where there was no metadata; when
\* download_video raises for a URL, the error leaves batch_download_video,
\* nothing is returned, and no later URL is tried.
C8_SequentialAbortOnRaise ==
    /\ \A i \in 1..Len(fetch_calls) : fetch_calls[i].url = url_list[i]
    /\ Len(output) = idx
    /\ pc = "loop" => Len(fetch_calls) = idx /\ raised = "none" /\ returned = NotReturned
    /\ pc = "returned" =>
          /\ raised = "none"
          /\ returned.kind = "list"
          /\ Len(returned.value) = Len(url_list)
          /\ Len(fetch_calls) = Len(url_list)
          /\ \A i \in 1..Len(url_list) :
                IF Falsy(fetch_calls[i].result)
                THEN returned.value[i] = EmptyMapping
                ELSE returned.value[i].url = url_list[i]
    /\ (\E i \in 1..Len(fetch_calls) :
            \/ fetch_calls[i].result.kind = "raises"
            \/ \E j \in GlobCallsOf(i) : glob_calls[j].matches = <<>>) =>
          /\ pc = "raised"
          /\ raised \in {"DownloadError", "IndexError"}
          /\ returned = NotReturned
          /\ Len(fetch_calls) = idx + 1
          /\ ~ENABLED NextDownload
    /\ pc = "raised" => raised # "none"

\* the second of three URLs raised after the first had given a record
C8_Witness ==
    /\ pc = "raised"
    /\ Len(url_list) = 3
    /\ Len(output) = 1
    /\ output[1] # EmptyMapping
    /\ Len(fetch_calls) = 2
    /\ returned = NotReturned

====
